---- MODULE Spec2Model ----
(***************************************************************************)
(* Model of plugins/modules/podman_image.py: the PodmanImageManager        *)
(* reconciliation engine (present / build / absent), its image lookup,     *)
(* the push destination resolver, the reference parser and the build-log   *)
(* scanner.                                                                 *)
(*                                                                         *)
(* Python strings are modelled as sequences of one-character strings, so   *)
(* that splitting, searching and concatenation are computed as the code    *)
(* computes them.  An optional string (None or a str) is <<>> or <<s>>.    *)
(* A JSON array of image records is a sequence of records.                 *)
(***************************************************************************)
EXTENDS Integers, Sequences, FiniteSets, TLC

VARIABLES
    fn,        \* the pure function under check: its argument and result
    cfg,       \* module.params and module.check_mode of the run
    store,     \* the local image store of the external tool
    results,   \* the results dict of main(), lines 948-954
    pc,        \* where the run stands: the next external command, done or failed
    ret,       \* the call site find_image() returns to
    loc,       \* locals and mutable attributes of the manager, with the exit
               \* code of the last pull, build, push or rmi
    invoked,   \* the command lines run_podman_command was given, in order
    skipped,   \* the mutating steps check mode skipped, in order
    failure,   \* the fail_json report or uncaught exception, if any
    run,       \* number of the current run
    prev       \* what the previous run left: its changed flag and the store

engineVars == <<cfg, store, results, pc, ret, loc, invoked, skipped, failure, run, prev>>

vars == <<fn, cfg, store, results, pc, ret, loc, invoked, skipped, failure, run, prev>>

\* ---------------------------------------------------------------------
\* Bounds
\* ---------------------------------------------------------------------
\* longest raw image name handed to parse_repository_tag
MaxNameLen == 4
\* most pieces a build log is put together from
MaxLogParts == 5
\* most pieces an image name given to a push is put together from
MaxRefParts == 3
\* successive runs of the module against the same store
MaxRuns == 2

\* ---------------------------------------------------------------------
\* Python str primitives
\* ---------------------------------------------------------------------
None == <<>>
Some(s) == <<s>>

\* c in s, for a one-character c
HasChar(s, c) == \E i \in 1..Len(s) : s[i] = c

\* s.startswith(p)
StartsWith(s, p) == Len(p) =< Len(s) /\ SubSeq(s, 1, Len(p)) = p

\* sub in s
IsSubstr(sub, s) ==
    \E i \in 0..(Len(s) - Len(sub)) : SubSeq(s, i + 1, i + Len(sub)) = sub

\* index of the rightmost / leftmost occurrence of c in s (0 when absent)
LastIndex(s, c) ==
    IF HasChar(s, c)
    THEN CHOOSE i \in 1..Len(s) : s[i] = c /\ \A j \in (i+1)..Len(s) : s[j] # c
    ELSE 0

FirstIndex(s, c) ==
    IF HasChar(s, c)
    THEN CHOOSE i \in 1..Len(s) : s[i] = c /\ \A j \in 1..(i-1) : s[j] # c
    ELSE 0

\* s.rsplit(c, 1): a list of one or two parts
RSplit1(s, c) ==
    LET k == LastIndex(s, c)
    IN  IF k = 0 THEN <<s>>
        ELSE <<SubSeq(s, 1, k - 1), SubSeq(s, k + 1, Len(s))>>

\* ---------------------------------------------------------------------
\* parse_repository_tag
\* ---------------------------------------------------------------------
\* splits at the leftmost '@' and takes any text after the last ':' as tag
parse_repository_tag_wrongside(repo_name) ==
    LET byAt == <<SubSeq(repo_name, 1, FirstIndex(repo_name, "@") - 1),
                  SubSeq(repo_name, FirstIndex(repo_name, "@") + 1, Len(repo_name))>>
        byColon == RSplit1(repo_name, ":")
    IN  IF HasChar(repo_name, "@") THEN <<byAt[1], Some(byAt[2])>>
        ELSE IF Len(byColon) = 2
             THEN <<byColon[1], Some(byColon[2])>>
             ELSE <<repo_name, None>>

\* lines 863-870; returns <<repository, optional tag>>
parse_repository_tag(repo_name) ==
    LET byAt == RSplit1(repo_name, "@")
        byColon == RSplit1(repo_name, ":")
    IN  IF Len(byAt) = 2 THEN <<byAt[1], Some(byAt[2])>>
        ELSE IF Len(byColon) = 2 /\ ~HasChar(byColon[2], "/")
             THEN <<byColon[1], Some(byColon[2])>>
             ELSE <<repo_name, None>>

\* ---------------------------------------------------------------------
\* Words of the command lines and messages
\* ---------------------------------------------------------------------
w_latest == <<"l", "a", "t", "e", "s", "t">>
w_sha256 == <<"s", "h", "a", "2", "5", "6">>
w_marker == <<"-", "-", ">">>
w_docker == <<"d", "o", "c", "k", "e", "r">>
w_ostree == <<"o", "s", "t", "r", "e", "e">>
w_dir == <<"d", "i", "r">>
w_docker_archive == w_docker \o <<"-", "a", "r", "c", "h", "i", "v", "e">>
w_docker_daemon == w_docker \o <<"-", "d", "a", "e", "m", "o", "n">>
w_oci_archive == <<"o", "c", "i", "-", "a", "r", "c", "h", "i", "v", "e">>
w_push == <<"p", "u", "s", "h">>
w_podman == <<"p", "o", "d", "m", "a", "n">>
w_image == <<"i", "m", "a", "g", "e">>
w_ls == <<"l", "s">>
w_exists == <<"e", "x", "i", "s", "t", "s">>
w_inspect == <<"i", "n", "s", "p", "e", "c", "t">>
w_pull == <<"p", "u", "l", "l">>
w_build == <<"b", "u", "i", "l", "d">>
w_rmi == <<"r", "m", "i">>
w_format == <<"-", "-", "f", "o", "r", "m", "a", "t">>
w_json == <<"j", "s", "o", "n">>
w_q == <<"-", "q">>
w_t == <<"-", "t">>
w_arch == <<"-", "-", "a", "r", "c", "h">>
w_file == <<"-", "-", "f", "i", "l", "e">>
w_quiet == <<"-", "-", "q", "u", "i", "e", "t">>
w_no_trunc == <<"-", "-", "n", "o", "-", "t", "r", "u", "n", "c">>
w_force == <<"-", "-", "f", "o", "r", "c", "e">>
w_sha256_colon == w_sha256 \o <<":">>
w_None == <<"N", "o", "n", "e">>
w_amd64 == <<"a", "m", "d", "6", "4">>
w_arm64 == <<"a", "r", "m", "6", "4">>
w_compress == <<"-", "-", "c", "o", "m", "p", "r", "e", "s", "s">>

\* ---------------------------------------------------------------------
\* PodmanImageManager._get_id_from_output(lines, startswith='-->')
\* ---------------------------------------------------------------------
\* str.splitlines(), for texts whose only line boundary is "\n"
RECURSIVE SplitLines(_)
SplitLines(s) ==
    IF s = <<>> THEN <<>>
    ELSE LET k == FirstIndex(s, "\n")
         IN  IF k = 0 THEN <<s>>
             ELSE <<SubSeq(s, 1, k - 1)>> \o SplitLines(SubSeq(s, k + 1, Len(s)))

Returned(v) == [raised |-> "", value |-> v]
Raised(e) == [raised |-> e, value |-> <<>>]

\* the loop of lines 514-517: the layer ids collected so far, or the
\* exception raised by splitline[1] on a matching line without a space
RECURSIVE CollectLayerIds(_, _)
CollectLayerIds(lines, startswith) ==
    IF lines = <<>> THEN Returned(<<>>)
    ELSE LET line == Head(lines)
             rest == CollectLayerIds(Tail(lines), startswith)
             splitline == RSplit1(line, " ")
         IN  IF startswith # <<>> /\ StartsWith(line, startswith)
             THEN IF Len(splitline) < 2 THEN Raised("IndexError")
                  ELSE IF rest.raised # "" THEN rest
                  ELSE Returned(<<splitline[2]>> \o rest.value)
             ELSE rest

get_id_from_output(lines, startswith) ==
    LET collected == CollectLayerIds(SplitLines(lines), startswith)
        layer_ids == IF collected.value = <<>> THEN SplitLines(lines)
                     ELSE collected.value
    IN  IF collected.raised # "" THEN collected
        ELSE IF layer_ids = <<>> THEN Raised("IndexError")
        ELSE Returned(layer_ids[Len(layer_ids)])

\* ---------------------------------------------------------------------
\* PodmanImageManager.__init__: name, tag and qualified image name
\* ---------------------------------------------------------------------
\* the self.name / self.tag / self.image_name of lines 483-489
ManagerNames(raw_name, tag_param) ==
    LET parsed == parse_repository_tag(raw_name)
        hasTag == parsed[2] # None /\ parsed[2][1] # <<>>
        name == IF hasTag THEN parsed[1] ELSE raw_name
        tag == IF hasTag THEN parsed[2][1] ELSE tag_param
        delimiter == IF ~IsSubstr(w_sha256, tag) THEN <<":">> ELSE <<"@">>
    IN  [name |-> name, tag |-> tag, image_name |-> name \o delimiter \o tag]

\* ---------------------------------------------------------------------
\* PodmanImageManager.push_image: the argument list (lines 742-810)
\* ---------------------------------------------------------------------
Transports == {w_dir, w_docker_archive, w_docker_daemon, w_oci_archive, w_ostree, w_docker}

\* the given dest is ignored
push_dest_nodest(m, dest) ==
    IF ~HasChar(m.image_name, "/")
    THEN m.image_name \o <<"/">> \o m.name \o <<":">> \o m.tag
    ELSE m.image_name \o <<"/">> \o m.image_name

\* lines 785-792: base destination plus name and tag
push_dest(m, dest) ==
    LET base == IF dest = None THEN m.image_name ELSE dest[1]
    IN  IF ~HasChar(m.image_name, "/")
        THEN base \o <<"/">> \o m.name \o <<":">> \o m.tag
        ELSE base \o <<"/">> \o m.image_name

\* docker-daemon is wrapped like the archive transports, never with ':latest'
push_dest_string_plain(m, dest, transport) ==
    LET d == push_dest(m, dest)
    IN  IF transport # None
        THEN LET t == transport[1]
             IN  IF t = w_docker THEN t \o <<":", "/", "/">> \o d
                 ELSE IF t = w_ostree THEN t \o <<":">> \o m.name \o <<"@">> \o d
                 ELSE t \o <<":">> \o d
        ELSE d

\* lines 794-805: transport wrapping
push_dest_string(m, dest, transport) ==
    LET d == push_dest(m, dest)
    IN  IF transport # None
        THEN LET t == transport[1]
             IN  IF t = w_docker THEN t \o <<":", "/", "/">> \o d
                 ELSE IF t = w_ostree THEN t \o <<":">> \o m.name \o <<"@">> \o d
                 ELSE IF t = w_docker_daemon /\ ~HasChar(d, ":")
                      THEN t \o <<":">> \o d \o <<":">> \o w_latest
                      ELSE t \o <<":">> \o d
        ELSE d

\* line 807: the destination check
push_dest_invalid(dest_string) ==
    /\ ~HasChar(dest_string, "/")
    /\ ~HasChar(dest_string, "@")
    /\ ~IsSubstr(w_docker_daemon, dest_string)

\* the args of lines 743-810; rejected when fail_json is called at line 808
push_args_list(m, push_args) ==
    LET dest_string == push_dest_string(m, push_args.dest, push_args.transport)
        flags == IF push_args.compress THEN <<w_compress>> ELSE <<>>
    IN  [rejected |-> push_dest_invalid(dest_string),
         args |-> <<w_push>> \o flags \o <<m.image_name, dest_string>>]

\* ---------------------------------------------------------------------
\* Inputs of the pure functions
\* ---------------------------------------------------------------------
NameAlphabet == {"a", "/", ":", "@"}

StringsUpTo(alphabet, n) == UNION {[1..k -> alphabet] : k \in 0..n}

RawNames == StringsUpTo(NameAlphabet, MaxNameLen)

s_redis4 == <<"r", "e", "d", "i", "s", ":", "4">>
s_hostport == <<"h", "o", "s", "t", ":", "5", "0", "0", "0", "/", "n", "a", "m", "e">>

ParseInputs == RawNames \cup {s_redis4, s_hostport}

RECURSIVE Flatten(_)
Flatten(parts) == IF parts = <<>> THEN <<>> ELSE Head(parts) \o Flatten(Tail(parts))

\* every text made of at most n of the given pieces
TextsOf(pieces, n) == {Flatten(f) : f \in UNION {[1..k -> pieces] : k \in 0..n}}

LogPieces == {w_marker, <<" ">>, <<"x">>, <<"y">>, <<"\n">>}

s_log_example ==
    <<"-", ">", " ", "s", "t", "e", "p", "1", " ", "i", "d", "1", "\n",
      "-", "-", ">", " ", "i", "d", "2", "\n",
      "o", "t", "h", "e", "r">>

ScanInputs == TextsOf(LogPieces, MaxLogParts) \cup {s_log_example}

RefPieces == {<<"n">>, <<"/">>, <<":">>, <<"@">>, w_sha256}

s_nginx == <<"n", "g", "i", "n", "x">>
s_quay_acme == <<"q", "u", "a", "y", ".", "i", "o", "/", "a", "c", "m", "e">>
s_badtarget == <<"b", "a", "d", "t", "a", "r", "g", "e", "t">>

PushNames == TextsOf(RefPieces, MaxRefParts) \cup {s_nginx}
TagParams == {w_latest, <<"4">>}
PushDests == {None, Some(s_quay_acme), Some(s_badtarget)}
PushTransports == {None} \cup {Some(t) : t \in Transports}

PushArgsInputs ==
    [dest : PushDests, transport : PushTransports, compress : BOOLEAN]

\* ---------------------------------------------------------------------
\* More Python primitives used by the engine
\* ---------------------------------------------------------------------
\* truth value of an optional string: None and '' are false
Truthy(opt) == opt # None /\ opt[1] # <<>>

\* " ".join(words)
RECURSIVE JoinSp(_)
JoinSp(words) ==
    IF words = <<>> THEN <<>>
    ELSE IF Len(words) = 1 THEN Head(words)
    ELSE Head(words) \o <<" ">> \o JoinSp(Tail(words))

\* s.strip()
RECURSIVE Strip(_)
Strip(s) ==
    IF s = <<>> THEN s
    ELSE IF Head(s) \in {" ", "\n"} THEN Strip(Tail(s))
    ELSE IF s[Len(s)] \in {" ", "\n"} THEN Strip(SubSeq(s, 1, Len(s) - 1))
    ELSE s

\* s.rstrip('/')
RECURSIVE RStripSlash(_)
RStripSlash(s) ==
    IF s # <<>> /\ s[Len(s)] = "/" THEN RStripSlash(SubSeq(s, 1, Len(s) - 1)) ELSE s

\* os.path.dirname(p)
Dirname(p) ==
    LET head == SubSeq(p, 1, LastIndex(p, "/"))
    IN  IF head # <<>> /\ \E i \in 1..Len(head) : head[i] # "/"
        THEN RStripSlash(head) ELSE head

\* re.sub(':.*$', '', s), for a one-line s
StripTag(s) == IF HasChar(s, ":") THEN SubSeq(s, 1, FirstIndex(s, ":") - 1) ELSE s

\* re.sub('^sha256:', '', c)
StripSha(c) ==
    IF StartsWith(c, w_sha256_colon) THEN SubSeq(c, Len(w_sha256_colon) + 1, Len(c)) ELSE c

\* '{...}'.format(x) of an optional string
FormatOpt(opt) == IF opt = None THEN w_None ELSE opt[1]

\* ---------------------------------------------------------------------
\* Configurations and stores of the engine
\* ---------------------------------------------------------------------
Digests == {"d1", "d2"}
Archs == {w_amd64, w_arm64}

\* the identifier of the image with a given digest
IdOf(d) == IF d = "d1" THEN <<"a", "b", "c">> ELSE <<"a", "b", "d">>

s_ctx == <<"c", "t", "x">>
s_containerfile == <<"d", "/", "C", "f">>

\* a bare name, a name with a registry path, a prefix of an image identifier
EngineNames == {<<"n">>, <<"r", "/", "n">>, <<"a", "b">>}

DefaultPushArgs == [dest |-> None, transport |-> None, compress |-> FALSE]

EnginePushArgs ==
    {DefaultPushArgs, [dest |-> Some(s_badtarget), transport |-> None, compress |-> TRUE]}

\* module.params (main, lines 874-946) and module.check_mode.  A parameter
\* keeps its default where no code of the run reads it: push_args is read by
\* push_image only, pull by pull_image only (state present with no build
\* context), the build file only when no path is given, and push, path and
\* build file by present() only.  The name that is a prefix of an image
\* identifier is for the identifier lookup of absent().
Configs ==
    {c \in [state : {"present", "build", "absent"},
            check_mode : BOOLEAN,
            force : BOOLEAN,
            pull : BOOLEAN,
            push : BOOLEAN,
            path : {None, Some(s_ctx)},
            build_file : {None, Some(s_containerfile)},
            arch : {None, Some(w_arm64)},
            name : EngineNames,
            tag : {w_latest},
            push_args : EnginePushArgs] :
        /\ (~c.push => c.push_args = DefaultPushArgs)
        /\ (c.path # None => c.build_file = None)
        /\ (~c.pull => c.state = "present" /\ c.path = None)
        /\ (c.state = "absent" => ~c.push /\ c.path = None /\ c.build_file = None)
        /\ (c.name = <<"a", "b">> => c.state = "absent")}

StoredImage(d, a, tagged, listed) ==
    [Id |-> IdOf(d), Digest |-> d, Architecture |-> a, tagged |-> tagged, listed |-> listed]

\* the store holds no image, or one image: carrying the qualified name or
\* not, and (the older-tool quirk) shown by the name-filtered listing or not
InitialStores ==
    {<<>>} \cup {<<StoredImage("d1", a, tl[1], tl[2])>> :
                    a \in Archs, tl \in {<<TRUE, TRUE>>, <<TRUE, FALSE>>, <<FALSE, FALSE>>}}

\* ---------------------------------------------------------------------
\* The external tool, as seen through run_podman_command
\* ---------------------------------------------------------------------
\* stdout of `image ls <image_name> --format json`, decoded
ListingOf(st, image_name) ==
    IF st # <<>> /\ st[1].tagged /\ st[1].listed
    THEN <<[Id |-> st[1].Id, Digest |-> st[1].Digest, Names |-> <<image_name>>]>>
    ELSE <<>>

\* exit code of `image exists <image_name>`
ExistsRc(st) == IF st # <<>> /\ st[1].tagged THEN 0 ELSE 1

\* whether `inspect <ref>` finds an image: by identifier or by qualified name
Resolves(st, ref, image_name) ==
    st # <<>> /\ (ref = st[1].Id \/ (st[1].tagged /\ ref = image_name))

\* stdout of `inspect <ref> --format json`, decoded
InspectOf(st) ==
    <<[Id |-> st[1].Id, Digest |-> st[1].Digest, Architecture |-> st[1].Architecture]>>

\* stdout of `image ls --quiet --no-trunc`
QuietListing(st) ==
    IF st = <<>> THEN <<>> ELSE w_sha256_colon \o st[1].Id \o <<"\n">>

\* stdout of a successful build of the image with identifier id: with
\* '-->' step lines, or the bare identifier alone
BuildLogs(id) ==
    {w_marker \o <<" ">> \o id \o <<"\n">> \o id \o <<"\n">>, id \o <<"\n">>}

\* what a command's decoded stdout may be: JSON, or something json.loads rejects
JsonOutputs == {"json", "garbled"}

\* what `inspect` may print on exit 0: the records, an empty array (for
\* which inspect_image returns None, lines 636-639), or no JSON
InspectOutputs == JsonOutputs \cup {"empty"}

\* ---------------------------------------------------------------------
\* The engine: PodmanImageManager
\* ---------------------------------------------------------------------
\* self.name, self.tag, self.image_name of the run
M == ManagerNames(cfg.name, cfg.tag)

Cur ==
    [store |-> store, results |-> results, pc |-> pc, ret |-> ret, loc |-> loc,
     invoked |-> invoked, skipped |-> skipped, failure |-> failure]

Becomes(e) ==
    /\ store' = e.store
    /\ results' = e.results
    /\ pc' = e.pc
    /\ ret' = e.ret
    /\ loc' = e.loc
    /\ invoked' = e.invoked
    /\ skipped' = e.skipped
    /\ failure' = e.failure
    /\ UNCHANGED <<fn, cfg, run, prev>>

\* the results dict of main()
FreshResults ==
    [changed |-> FALSE, actions |-> <<>>, podman_actions |-> <<>>,
     image |-> <<>>, image_state |-> "", stdout |-> <<>>]

FreshLoc(c) ==
    [image |-> <<>>, digest_before |-> "none", images |-> <<>>, image_id |-> None,
     last_id |-> <<>>, out |-> "", path |-> c.path, rc |-> 0]

\* __init__, lines 491-495: the state decides the entry point
EntryRet(c) == IF c.state = "absent" THEN "absent" ELSE "present"

\* the command line _run logs, line 501
CmdLine(args) == JoinSp(<<w_podman>> \o args)

\* _run, lines 500-510: the command line is recorded, then the command runs
Run(e, args) ==
    [e EXCEPT !.invoked = Append(@, args),
              !.results.podman_actions = Append(@, CmdLine(args))]

\* the captured streams a failure message formats into its text: lines 597
\* and 635 (out), 737 (out and err), 846 and 858 (err); the pull, push and
\* configuration messages format none
MessageFormats(msg) ==
    CASE msg \in {"Failed to parse JSON output from podman image ls",
                  "Failed to parse JSON output from podman inspect"} -> {"stdout"}
      [] msg = "Failed to build image" -> {"stdout", "stderr"}
      [] msg \in {"Failed to remove image", "Failed to remove image with id"} -> {"stderr"}
      [] OTHER -> {}

\* a failure report that does not end the run
FailJson_goes_on(e, msg, kwargs) ==
    [e EXCEPT !.failure = <<[msg |-> msg, kwargs |-> kwargs,
                             formats |-> MessageFormats(msg)]>>]

\* rc, out, err = self._run(args, ignore_errors=True) of a pull, build, push
\* or rmi, lines 669, 735, 827, 844 and 856: the exit code is kept
RunRc(e, args, rc) ==
    [e EXCEPT !.invoked = Append(@, args),
              !.results.podman_actions = Append(@, CmdLine(args)),
              !.loc.rc = rc]

\* module.fail_json(msg=..., **kwargs): the run ends, failed; the report is
\* the message and the keyword arguments, the results dict is not part of it
FailJson(e, msg, kwargs) ==
    [e EXCEPT !.pc = "failed",
              !.failure = <<[msg |-> msg, kwargs |-> kwargs,
                             formats |-> MessageFormats(msg)]>>]

\* an exception nothing catches ends the run, failed
Raise(e, exc) ==
    [e EXCEPT !.pc = "failed",
              !.failure = <<[msg |-> exc, kwargs |-> {}, formats |-> {}]>>]


\* a run that ends marks itself changed
Finish_marks(e, image) ==
    [e EXCEPT !.pc = "done",
              !.results.changed = TRUE,
              !.results.image = IF image # <<>> /\ @ = <<>> THEN image ELSE @]

\* present, lines 563-564, and the return to main()
Finish(e, image) ==
    [e EXCEPT !.pc = "done",
              !.results.image = IF image # <<>> /\ @ = <<>> THEN image ELSE @]

\* a run that never pushes
PushStep_never(e, image) == Finish(e, image)

\* present, line 560: push if requested
PushStep(e, image) ==
    IF cfg.push THEN [e EXCEPT !.pc = "push", !.loc.image = image]
    ELSE Finish(e, image)

\* present, lines 554-558: the digest comparison
CompareDigests(e, image) ==
    IF ~cfg.check_mode
    THEN IF image = <<>> THEN Raise(e, "TypeError in present")
         ELSE PushStep([e EXCEPT !.results.changed =
                                    (e.loc.digest_before # image[1].Digest)], image)
    ELSE PushStep([e EXCEPT !.results.changed = TRUE], image)

\* present, lines 552-553: look the image up again if the mutation gave none
AfterMutation(e, image) ==
    IF image = <<>> THEN [e EXCEPT !.pc = "find_ls", !.ret = "present_after"]
    ELSE CompareDigests(e, image)


\* a build or pull on every run, whatever the lookup found
MutationDue_always(image) == TRUE

\* present, line 533: is a build or pull due
MutationDue(image) == image = <<>> \/ cfg.force

\* a build only when a context path is given
BuildChosen_bypath(e) == Truthy(e.loc.path)

\* present, line 534: build rather than pull
BuildChosen(e) == cfg.state = "build" \/ Truthy(e.loc.path)

\* present, lines 527-551, entered when the first find_image() returns
PresentFound(e, image) ==
    LET digest_before == IF image # <<>> THEN image[1].Digest ELSE "none"
        e1 == [e EXCEPT !.loc.digest_before = digest_before, !.loc.image = image]
        build_file == cfg.build_file
        path == IF ~Truthy(e.loc.path) /\ Truthy(build_file)
                THEN Some(Dirname(build_file[1])) ELSE e.loc.path
        built == [e1 EXCEPT !.loc.path = path,
                            !.results.actions =
                                Append(@, <<"Built image", M.image_name, FormatOpt(path)>>)]
        pulled == [e1 EXCEPT !.results.actions =
                                Append(@, <<"Pulled image", M.image_name>>)]
    IN  IF MutationDue(image)
        THEN IF BuildChosen(e)
             THEN IF ~Truthy(e.loc.path) /\ ~Truthy(build_file)
                  THEN FailJson(e1, "Path to build context or file is required when building an image", {})
                  ELSE IF ~cfg.check_mode THEN [built EXCEPT !.pc = "build"]
                  ELSE AfterMutation([built EXCEPT !.skipped = Append(@, "build")], image)
             ELSE IF ~cfg.check_mode THEN [pulled EXCEPT !.pc = "pull"]
                  ELSE AfterMutation([pulled EXCEPT !.skipped = Append(@, "pull")], image)
        ELSE PushStep(e1, image)

\* find_image() returns result to its call site: line 526, 553 or 567
FindReturn(e, result) ==
    CASE e.ret = "present" -> PresentFound(e, result)
      [] e.ret = "present_after" -> CompareDigests([e EXCEPT !.loc.image = result], result)
      [] e.ret = "absent" -> [e EXCEPT !.loc.image = result, !.pc = "find_id"]

\* run_podman_command with ignore_errors left False (inspect_image, line
\* 631): an exit code other than expected_rc is reported by fail_json
CommandRejected(rc, expected_rc) == rc # expected_rc

\* inspect_image(ref), lines 627-639, against the store, given json.loads'
\* verdict on the output: the failure, or the decoded records
inspect_image(st, ref, image_name, output) ==
    IF CommandRejected(IF Resolves(st, ref, image_name) THEN 0 ELSE 125, 0)
    THEN [failed |-> TRUE, msg |-> "Failed to run podman inspect", data |-> <<>>]
    ELSE IF output = "garbled"
    THEN [failed |-> TRUE, msg |-> "Failed to parse JSON output from podman inspect",
          data |-> <<>>]
    ELSE [failed |-> FALSE, msg |-> "",
          data |-> IF output = "empty" THEN None ELSE InspectOf(st)]

InspectArgs(ref) == <<w_inspect, ref, w_format, w_json>>

\* _is_target_arch, line 612: inspect_json[0] of None is a TypeError
is_target_arch_raises(inspect_json, arch) == Truthy(arch) /\ inspect_json = None

\* _is_target_arch, lines 611-612
is_target_arch(inspect_json, arch) ==
    Truthy(arch) /\ inspect_json[1].Architecture = arch[1]

\* find_image, lines 607-609: the architecture filter
find_image_result(images, inspect_json, arch) ==
    IF is_target_arch(inspect_json, arch) \/ ~Truthy(arch)
    THEN IF images # <<>> THEN images ELSE inspect_json
    ELSE None


\* the lookup inspects whatever the listing holds
AfterListing_inspects(images) == "find_inspect"

\* find_image, lines 598 and 605: what follows the listing
AfterListing(images) == IF Len(images) = 0 THEN "find_exists" ELSE "find_inspect"

\* find_image, lines 589-598 and 605: the listing query
FindLs ==
    /\ pc = "find_ls"
    /\ \E output \in JsonOutputs :
        LET e1 == Run(Cur, <<w_image, w_ls, M.image_name, w_format, w_json>>)
            images == ListingOf(store, M.image_name)
        IN  IF output = "garbled"
            THEN Becomes(FailJson(e1, "Failed to parse JSON output from podman image ls", {}))
            ELSE Becomes([e1 EXCEPT !.loc.images = images,
                                    !.pc = AfterListing(images)])

\* find_image, lines 598-604: the existence check
FindExists ==
    /\ pc = "find_exists"
    /\ LET e1 == Run(Cur, <<w_image, w_exists, M.image_name>>)
       IN  IF ExistsRc(store) = 0
           THEN Becomes([e1 EXCEPT !.pc = "find_inspect"])
           ELSE Becomes(FindReturn(e1, None))

\* find_image, lines 602 / 606 to 609: inspection and architecture filter
FindInspect ==
    /\ pc = "find_inspect"
    /\ \E output \in InspectOutputs :
        LET e1 == Run(Cur, InspectArgs(M.image_name))
            r == inspect_image(store, M.image_name, M.image_name, output)
        IN  IF r.failed THEN Becomes(FailJson(e1, r.msg, {}))
            ELSE IF is_target_arch_raises(r.data, cfg.arch)
            THEN Becomes(Raise(e1, "TypeError in _is_target_arch"))
            ELSE Becomes(FindReturn(e1, find_image_result(loc.images, r.data, cfg.arch)))

\* pull_image, lines 645-667: the argument list (credential, TLS and extra
\* arguments are not modelled)
pull_args ==
    <<w_pull, M.image_name, w_q>>
        \o (IF Truthy(cfg.arch) THEN <<w_arch, cfg.arch[1]>> ELSE <<>>)

\* pull_image, lines 641-675: the pull command
Pull ==
    /\ pc = "pull"
    /\ \E rc \in {0, 1}, d \in Digests, a \in Archs :
        LET e1 == RunRc(Cur, pull_args, rc)
        IN  IF rc # 0
            THEN Becomes(FailJson(e1,
                    IF ~cfg.pull
                    THEN "Failed to find image locally, image pull set to False"
                    ELSE "Failed to pull image", {}))
            ELSE Becomes([e1 EXCEPT
                    !.store = <<StoredImage(d, a, TRUE, TRUE)>>,
                    !.loc.last_id = Strip(IdOf(d) \o <<"\n">>),
                    !.pc = "pull_inspect"])

\* pull_image, line 676, and present, lines 550-560
PullInspect ==
    /\ pc = "pull_inspect"
    /\ \E output \in InspectOutputs :
        LET e1 == Run(Cur, InspectArgs(loc.last_id))
            r == inspect_image(store, loc.last_id, M.image_name, output)
        IN  IF r.failed THEN Becomes(FailJson(e1, r.msg, {}))
            ELSE Becomes(AfterMutation([e1 EXCEPT !.results.image = r.data], r.data))

\* build_image, lines 679-733: the argument list (annotation, format, cache,
\* volume, credential, TLS, target and extra arguments are not modelled)
build_args(path) ==
    <<w_build, w_t, M.image_name>>
        \o (IF Truthy(cfg.build_file) THEN <<w_file, cfg.build_file[1]>> ELSE <<>>)
        \o <<FormatOpt(path)>>

\* build_image, lines 678-739: the build command and the scan of its log
Build ==
    /\ pc = "build"
    /\ \E rc \in {0, 1}, d \in Digests, a \in Archs :
        \E log \in BuildLogs(IdOf(d)) :
            LET e1 == RunRc(Cur, build_args(loc.path), rc)
                last_id == get_id_from_output(log, w_marker)
            IN  IF rc # 0
                THEN Becomes(FailJson(e1, "Failed to build image", {}))
                ELSE IF last_id.raised # ""
                THEN Becomes(Raise([e1 EXCEPT !.store = <<StoredImage(d, a, TRUE, TRUE)>>],
                                   last_id.raised))
                ELSE Becomes([e1 EXCEPT
                        !.store = <<StoredImage(d, a, TRUE, TRUE)>>,
                        !.loc.last_id = last_id.value,
                        !.loc.out = "build output",
                        !.pc = "build_inspect"])

\* build_image, line 740, and present, lines 544-560
BuildInspect ==
    /\ pc = "build_inspect"
    /\ \E output \in InspectOutputs :
        LET e1 == Run(Cur, InspectArgs(loc.last_id))
            r == inspect_image(store, loc.last_id, M.image_name, output)
        IN  IF r.failed THEN Becomes(FailJson(e1, r.msg, {}))
            ELSE Becomes(AfterMutation(
                    [e1 EXCEPT !.results.image = r.data,
                               !.results.stdout = <<loc.out>>], r.data))

\* push_image, lines 812-817: the action description
push_action ==
    IF HasChar(M.image_name, "/")
    THEN <<"Pushed image", M.image_name>>
    ELSE <<"Pushed image to", M.image_name, FormatOpt(cfg.push_args.dest)>>

\* the exit codes a push may give: it cannot succeed without the image
PushRcs == IF store # <<>> /\ store[1].tagged THEN {0, 1} ELSE {1}

\* push_image, lines 742-833: destination, bookkeeping and the push command
Push ==
    /\ pc = "push"
    /\ LET pa == push_args_list(M, cfg.push_args)
           e1 == [Cur EXCEPT !.results.actions = Append(@, push_action),
                             !.results.changed = TRUE,
                             !.results.podman_actions = Append(@, CmdLine(pa.args))]
       IN  IF pa.rejected
           THEN Becomes(FailJson(Cur, "Destination must be a full URL or path to a directory.", {}))
           ELSE IF cfg.check_mode
           THEN Becomes([e1 EXCEPT !.skipped = Append(@, "push"),
                                   !.loc.out = "",
                                   !.pc = "push_inspect"])
           ELSE \E rc \in PushRcs :
                   LET e2 == RunRc(e1, pa.args, rc)
                   IN  IF rc # 0
                       THEN Becomes(FailJson(e2, "Failed to push image",
                                {"stdout", "stderr", "actions", "podman_actions"}))
                       ELSE Becomes([e2 EXCEPT !.loc.out = "push output",
                                               !.pc = "push_inspect"])

\* push_image, line 835, and present, lines 561-564
PushInspect ==
    /\ pc = "push_inspect"
    /\ \E output \in InspectOutputs :
        LET e1 == Run(Cur, InspectArgs(M.image_name))
            r == inspect_image(store, M.image_name, M.image_name, output)
        IN  IF r.failed THEN Becomes(FailJson(e1, r.msg, {}))
            ELSE Becomes(Finish(
                    [e1 EXCEPT !.results.image = r.data,
                               !.results.stdout = @ \o <<"\n", loc.out>>], loc.image))

\* find_image_id, lines 617-625, on the output of the quiet listing
find_image_id(image_name, candidates_out) ==
    LET image_id == StripTag(image_name)
        lines == SplitLines(candidates_out)
    IN  IF \E i \in 1..Len(lines) : StartsWith(StripSha(lines[i]), image_id)
        THEN Some(image_id) ELSE None

\* absent, lines 568-570 and 576: the identifier lookup and the choice
FindImageId ==
    /\ pc = "find_id"
    /\ LET e1 == Run(Cur, <<w_image, w_ls, w_quiet, w_no_trunc>>)
           image_id == find_image_id(M.image_name, QuietListing(store))
       IN  Becomes([e1 EXCEPT !.loc.image_id = image_id,
                              !.pc = IF loc.image # <<>> \/ Truthy(image_id)
                                     THEN "remove" ELSE "done"])


\* removal always by qualified name
rmi_args_named(target) == <<w_rmi, M.image_name>> \o (IF cfg.force THEN <<w_force>> ELSE <<>>)

\* remove_image / remove_image_id, lines 841-843 and 853-855
rmi_args(target) == <<w_rmi, target>> \o (IF cfg.force THEN <<w_force>> ELSE <<>>)

\* absent, lines 570-582 with remove_image and remove_image_id
Remove ==
    /\ pc = "remove"
    /\ LET byName == loc.image # <<>>
           target == IF byName THEN M.image_name ELSE StripTag(M.image_name)
           e1 == [Cur EXCEPT
                    !.results.actions =
                        Append(@, IF byName THEN <<"Removed image", M.name>>
                                  ELSE <<"Removed image with id", M.image_name>>),
                    !.results.changed = TRUE,
                    !.results.image_state = "Deleted"]
       IN  IF cfg.check_mode
           THEN Becomes([e1 EXCEPT !.skipped = Append(@, "rmi"), !.pc = "done"])
           ELSE \E rc \in {0, 1} :
                   LET e2 == RunRc(e1, rmi_args(target), rc)
                   IN  IF rc # 0
                       THEN Becomes(FailJson(e2, IF byName THEN "Failed to remove image"
                                                 ELSE "Failed to remove image with id", {}))
                       ELSE Becomes([e2 EXCEPT !.store = <<>>, !.pc = "done"])

\* the module is run again with the same parameters against the store the
\* previous run left
NextRun ==
    /\ pc \in {"done", "failed"}
    /\ run < MaxRuns
    /\ run' = run + 1
    /\ prev' = <<[changed |-> results.changed, ended |-> pc, store |-> store]>>
    /\ results' = FreshResults
    /\ loc' = FreshLoc(cfg)
    /\ pc' = "find_ls"
    /\ ret' = EntryRet(cfg)
    /\ invoked' = <<>>
    /\ skipped' = <<>>
    /\ failure' = <<>>
    /\ UNCHANGED <<fn, cfg, store>>

NoFn == [op |-> "engine", arg |-> <<>>, done |-> TRUE, out |-> <<>>]

Init ==
    /\ fn = NoFn
    /\ cfg \in Configs
    /\ store \in InitialStores
    /\ results = FreshResults
    /\ loc = FreshLoc(cfg)
    /\ pc = "find_ls"
    /\ ret = EntryRet(cfg)
    /\ invoked = <<>>
    /\ skipped = <<>>
    /\ failure = <<>>
    /\ run = 1
    /\ prev = <<>>

Next ==
    \/ FindLs
    \/ FindExists
    \/ FindInspect
    \/ Pull
    \/ PullInspect
    \/ Build
    \/ BuildInspect
    \/ Push
    \/ PushInspect
    \/ FindImageId
    \/ Remove
    \/ NextRun

Spec == Init /\ [][Next]_vars

\* the engine at rest, for the specifications of the pure functions
EngineOff ==
    /\ cfg = <<>>
    /\ store = <<>>
    /\ results = FreshResults
    /\ loc = <<>>
    /\ pc = "off"
    /\ ret = ""
    /\ invoked = <<>>
    /\ skipped = <<>>
    /\ failure = <<>>
    /\ run = 0
    /\ prev = <<>>

\* ---------------------------------------------------------------------
\* Specification of the reference parser: every bounded raw name is parsed
\* ---------------------------------------------------------------------
InitParse ==
    /\ EngineOff
    /\ \E s \in ParseInputs : fn = [op |-> "parse", arg |-> s, done |-> FALSE, out |-> <<>>]

Parse ==
    /\ fn.op = "parse"
    /\ ~fn.done
    /\ fn' = [fn EXCEPT !.done = TRUE, !.out = parse_repository_tag(fn.arg)]
    /\ UNCHANGED engineVars

NextParse == Parse

SpecParse == InitParse /\ [][NextParse]_vars

C8_Rejoins(arg, out, sep) ==
    /\ out[2] # None
    /\ out[1] \o <<sep>> \o out[2][1] = arg
    /\ ~HasChar(out[2][1], sep)

\* ---------------------------------------------------------------------
\* C8: reference parsing is total and follows the three rules: a name with
\* '@' is split at its rightmost '@' and the right part is the digest;
\* otherwise a name with ':' whose part after the rightmost ':' has no '/'
\* is split there and the right part is the tag; otherwise the whole name
\* is the repository and there is no tag.  Stated on the result without
\* re-running the parser: the two parts glued back with the separator give
\* the input, and the returned part is free of the separator.
\* ---------------------------------------------------------------------
C8_ParseRules ==
    (fn.op = "parse" /\ fn.done) =>
        /\ Len(fn.out) = 2
        /\ IF HasChar(fn.arg, "@")
           THEN C8_Rejoins(fn.arg, fn.out, "@")
           ELSE IF HasChar(fn.arg, ":")
                   /\ \A i \in (LastIndex(fn.arg, ":") + 1)..Len(fn.arg) : fn.arg[i] # "/"
                THEN C8_Rejoins(fn.arg, fn.out, ":")
                ELSE fn.out = <<fn.arg, None>>
        /\ (fn.arg = s_redis4 => fn.out = <<SubSeq(s_redis4, 1, 5), Some(<<"4">>)>>)
        /\ (fn.arg = s_hostport => fn.out = <<s_hostport, None>>)

\* a name with two '@' has been parsed (rightmost split matters)
C8_Witness ==
    /\ fn.op = "parse" /\ fn.done
    /\ fn.arg = <<"a", "@", "a", "@">>
    /\ fn.out = <<<<"a", "@", "a">>, Some(<<>>)>>


\* ---------------------------------------------------------------------
\* Specification of the build-log scanner: every bounded log is scanned
\* with the marker build_image passes (line 739)
\* ---------------------------------------------------------------------
InitScan ==
    /\ EngineOff
    /\ \E s \in ScanInputs : fn = [op |-> "scan", arg |-> s, done |-> FALSE, out |-> <<>>]

Scan ==
    /\ fn.op = "scan"
    /\ ~fn.done
    /\ fn' = [fn EXCEPT !.done = TRUE, !.out = get_id_from_output(fn.arg, w_marker)]
    /\ UNCHANGED engineVars

NextScan == Scan

SpecScan == InitScan /\ [][NextScan]_vars

\* ---------------------------------------------------------------------
\* Specification of the destination resolver: the push argument list is
\* built for every bounded name, tag and push option
\* ---------------------------------------------------------------------
InitDest ==
    /\ EngineOff
    /\ \E n \in PushNames, tg \in TagParams, pa \in PushArgsInputs :
        fn = [op |-> "dest", arg |-> [name |-> n, tag |-> tg, push_args |-> pa],
              done |-> FALSE, out |-> <<>>]

Resolve ==
    /\ fn.op = "dest"
    /\ ~fn.done
    /\ fn' = [fn EXCEPT !.done = TRUE,
                        !.out = push_args_list(ManagerNames(fn.arg.name, fn.arg.tag),
                                               fn.arg.push_args)]
    /\ UNCHANGED engineVars

NextDest == Resolve

SpecDest == InitDest /\ [][NextDest]_vars

C9_TrailingToken(line) ==
    SubSeq(line, LastIndex(line, " ") + 1, Len(line))

\* ---------------------------------------------------------------------
\* C9: for every build output, the identifier returned is the trailing
\* space-separated token of the last line starting with '-->', and, when no
\* line starts with the marker, the last non-empty line of the output.
\* (Nothing is asked of an output with no marker line and no non-empty line.)
\* ---------------------------------------------------------------------
C9_ScanRule ==
    (fn.op = "scan" /\ fn.done) =>
        LET lines == SplitLines(fn.arg)
            marked == {i \in 1..Len(lines) : StartsWith(lines[i], w_marker)}
            nonempty == {i \in 1..Len(lines) : lines[i] # <<>>}
            last(S) == CHOOSE i \in S : \A j \in S : j =< i
        IN  IF marked # {}
            THEN fn.out = Returned(C9_TrailingToken(lines[last(marked)]))
            ELSE nonempty # {} => fn.out = Returned(lines[last(nonempty)])

C6_Expected(m, dest) ==
    LET base == IF dest = None THEN m.image_name ELSE dest[1]
        suffix == IF \A i \in 1..Len(m.image_name) : m.image_name[i] # "/"
                  THEN <<"/">> \o m.name \o <<":">> \o m.tag
                  ELSE <<"/">> \o m.image_name
    IN  base \o suffix

\* ---------------------------------------------------------------------
\* C6: without a transport the destination passed to push is base + suffix:
\* base is the given dest or else the qualified reference; suffix is
\* '/<name>:<tag>' when the qualified reference has no '/', and
\* '/<qualified reference>' otherwise.  It is the last argument of the push
\* command and the source reference is the one before it.
\* ---------------------------------------------------------------------
C6_PushDestination ==
    (fn.op = "dest" /\ fn.done /\ fn.arg.push_args.transport = None) =>
        LET m == ManagerNames(fn.arg.name, fn.arg.tag)
            args == fn.out.args
        IN  /\ ~fn.out.rejected
            /\ Len(args) >= 3
            /\ args[Len(args)] = C6_Expected(m, fn.arg.push_args.dest)
            /\ args[Len(args) - 1] = m.image_name
            /\ (fn.arg.name = s_nginx /\ fn.arg.tag = <<"4">>
                /\ fn.arg.push_args.dest = Some(s_quay_acme))
               => args[Len(args)] = s_quay_acme \o <<"/">> \o s_nginx \o <<":", "4">>

\* name 'nginx', tag '4', dest 'quay.io/acme' with a flag before the operands
C6_Witness ==
    /\ fn.op = "dest" /\ fn.done
    /\ fn.arg.name = s_nginx /\ fn.arg.tag = <<"4">>
    /\ fn.arg.push_args = [dest |-> Some(s_quay_acme), transport |-> None, compress |-> TRUE]
    /\ Len(fn.out.args) = 4

C7_Wrapped(m, d, transport) ==
    CASE transport = None -> d
      [] transport = Some(w_docker) -> w_docker \o <<":", "/", "/">> \o d
      [] transport = Some(w_ostree) -> w_ostree \o <<":">> \o m.name \o <<"@">> \o d
      [] transport = Some(w_docker_daemon) ->
            w_docker_daemon \o <<":">> \o d
                \o (IF \E i \in 1..Len(d) : d[i] = ":" THEN <<>> ELSE <<":">> \o w_latest)
      [] OTHER -> transport[1] \o <<":">> \o d

\* ---------------------------------------------------------------------
\* C7: transport wrapping of the computed destination d: docker gives
\* 'docker://d'; ostree gives 'ostree:<name>@d'; dir, docker-archive and
\* oci-archive give '<transport>:d'; docker-daemon gives 'docker-daemon:d'
\* with ':latest' appended exactly when d has no ':'; no transport gives d.
\* ---------------------------------------------------------------------
C7_TransportWrapping ==
    (fn.op = "dest" /\ fn.done) =>
        LET m == ManagerNames(fn.arg.name, fn.arg.tag)
            d == C6_Expected(m, fn.arg.push_args.dest)
        IN  fn.out.args[Len(fn.out.args)] = C7_Wrapped(m, d, fn.arg.push_args.transport)

\* a docker-daemon destination without ':' got ':latest' appended
C7_Witness ==
    /\ fn.op = "dest" /\ fn.done
    /\ fn.arg.push_args.transport = Some(w_docker_daemon)
    /\ LET a == fn.out.args[Len(fn.out.args)]
       IN  /\ SubSeq(a, Len(a) - 6, Len(a)) = <<":">> \o w_latest
           /\ ~HasChar(SubSeq(a, Len(w_docker_daemon) + 2, Len(a) - 7), ":")


\* ---------------------------------------------------------------------
\* Vocabulary of the claims about runs
\* ---------------------------------------------------------------------
MutatingWords == {w_pull, w_build, w_push, w_rmi}

Invocations(word) == {i \in 1..Len(invoked) : invoked[i][1] = word}

MutatingInvocations == {i \in 1..Len(invoked) : invoked[i][1] \in MutatingWords}

Ended == pc \in {"done", "failed"}

C1_SameDigest ==
    /\ prev # <<>> /\ prev[1].store # <<>> /\ prev[1].store[1].tagged
    /\ store # <<>> /\ store[1].tagged
    /\ store[1].Digest = prev[1].store[1].Digest

\* ---------------------------------------------------------------------
\* C1 (as claimed): a second run with state present and force unset, on the
\* store the first run left, reports changed=false whenever the image's
\* digest is the same as after the first run, whatever the other options.
\* ---------------------------------------------------------------------
C1_IdempotentAnyOptions ==
    (run = 2 /\ pc = "done" /\ cfg.state = "present" /\ ~cfg.force /\ C1_SameDigest)
        => ~results.changed

C1_LeftInPlace ==
    /\ prev # <<>> /\ prev[1].store # <<>> /\ prev[1].store[1].tagged
    /\ (Truthy(cfg.arch) => prev[1].store[1].Architecture = cfg.arch[1])

\* the tool gave the run's first lookup the image's record (in the listing,
\* or in the inspection's answer when the listing is empty), so that the
\* lookup returned it
C1_Reported == loc.digest_before # "none"

\* ---------------------------------------------------------------------
\* C1 (amended): with state present, force unset and push unset, a second
\* run on the store the first run left reports changed=false, and runs no
\* pull, build, push or rmi, whenever that store holds the image under the
\* qualified name with the requested architecture (if one is requested)
\* and the tool gives the lookup the image's record.
\* ---------------------------------------------------------------------
C1_IdempotentNoPush ==
    (run = 2 /\ pc = "done" /\ cfg.state = "present" /\ ~cfg.force /\ ~cfg.push
        /\ C1_LeftInPlace /\ C1_Reported)
        => (~results.changed /\ MutatingInvocations = {} /\ C1_SameDigest)

\* the first run pulled the image and reported a change, the second did not
C1_Witness ==
    /\ run = 2 /\ pc = "done" /\ cfg.state = "present" /\ ~cfg.force /\ ~cfg.push
    /\ ~cfg.check_mode /\ Truthy(cfg.arch)
    /\ C1_LeftInPlace /\ prev[1].changed
    /\ ~results.changed

\* ---------------------------------------------------------------------
\* C2: changed is true only if, outside check mode, a pull, build, push or
\* rmi command was run in this run or, in check mode, such a command was due
\* and skipped; a run of lookups alone ends with changed=false.  The state
\* is observed where the engine hands over to the external tool or ends.
\* ---------------------------------------------------------------------
C2_ChangedOnlyByMutation ==
    /\ results.changed =>
          IF cfg.check_mode THEN skipped # <<>> ELSE MutatingInvocations # {}
    /\ (pc = "done" /\ MutatingInvocations = {} /\ skipped = <<>>) => ~results.changed

\* a run outside check mode pulled and ended changed
C2_Witness ==
    /\ pc = "done" /\ ~cfg.check_mode /\ results.changed
    /\ Invocations(w_pull) # {}
    /\ Invocations(w_push) = {}

C3_ParseFailure ==
    failure # <<>> /\ failure[1].msg \in
        {"Failed to parse JSON output from podman image ls",
         "Failed to parse JSON output from podman inspect"}

\* ---------------------------------------------------------------------
\* C3 (as claimed): in check mode no pull, build, push or rmi command is
\* invoked, and whenever one was due the run completes with changed=true
\* and the action recorded.  (A lookup whose output is not JSON is left out:
\* the claim is about a tool that answers.)
\* ---------------------------------------------------------------------
C3_CheckModeCompletes ==
    cfg # <<>> /\ cfg.check_mode =>
        /\ MutatingInvocations = {}
        /\ (Ended /\ skipped # <<>> /\ ~C3_ParseFailure) =>
              (pc = "done" /\ results.changed /\ Len(results.actions) >= Len(skipped))

C4_RemoveFailed ==
    failure # <<>> /\ failure[1].msg \in
        {"Failed to remove image", "Failed to remove image with id"}

C4_OneRmiOn(target) ==
    IF cfg.check_mode THEN Invocations(w_rmi) = {}
    ELSE /\ Cardinality(Invocations(w_rmi)) = 1
         /\ \A i \in Invocations(w_rmi) : invoked[i][2] = target

\* ---------------------------------------------------------------------
\* C4: state absent has three outcomes.  Image found by qualified name: the
\* removal is recorded, changed is true and, outside check mode, exactly
\* one rmi is invoked, on the qualified name.  Else the tag-stripped name
\* matches an image identifier: changed is true and, outside check mode,
\* exactly one rmi is invoked, on that identifier.  Else: no rmi, changed
\* false, no action recorded.
\* ---------------------------------------------------------------------
C4_AbsentOutcomes ==
    (cfg # <<>> /\ cfg.state = "absent" /\ (pc = "done" \/ C4_RemoveFailed)) =>
        IF loc.image # <<>>
        THEN /\ results.actions = <<<<"Removed image", M.name>>>>
             /\ results.changed
             /\ C4_OneRmiOn(M.image_name)
        ELSE IF Truthy(loc.image_id)
        THEN /\ Len(results.actions) = 1
             /\ results.changed
             /\ loc.image_id[1] = SubSeq(M.image_name, 1, Len(loc.image_id[1]))
             /\ \E i \in Len(loc.image_id[1]) + 1 .. Len(M.image_name) :
                    M.image_name[i] = ":"
             /\ C4_OneRmiOn(loc.image_id[1])
        ELSE /\ Invocations(w_rmi) = {}
             /\ ~results.changed
             /\ results.actions = <<>>

\* an image without the name but with a matching identifier was removed
C4_Witness ==
    /\ cfg.state = "absent" /\ pc = "done" /\ ~cfg.check_mode
    /\ loc.image = <<>> /\ Truthy(loc.image_id)
    /\ invoked[Len(invoked)] = <<w_rmi, <<"a", "b">>, w_force>>
    /\ store = <<>>

C5_BareDest(dest) ==
    /\ dest # None
    /\ ~HasChar(dest[1], "/") /\ ~HasChar(dest[1], "@")
    /\ ~IsSubstr(w_docker_daemon, dest[1])

\* ---------------------------------------------------------------------
\* C5 (as claimed): a push whose given destination is a bare string, with
\* no '/', no '@' and no 'docker-daemon' in it, is rejected with a fatal
\* error and no push command is invoked for it.
\* ---------------------------------------------------------------------
C5_BareDestRejected ==
    (cfg # <<>> /\ cfg.push /\ C5_BareDest(cfg.push_args.dest)) =>
        /\ Invocations(w_push) = {}
        /\ \A i \in 1..Len(skipped) : skipped[i] # "push"

\* ---------------------------------------------------------------------
\* C10 (as claimed): in every run with pull=false no pull command is
\* invoked.
\* ---------------------------------------------------------------------
C10_NoPullWhenPullFalse ==
    (cfg # <<>> /\ ~cfg.pull) => Invocations(w_pull) = {}

\* a step that hands a command to the external tool
C11_Invokes == invoked' # invoked /\ run' = run

\* ---------------------------------------------------------------------
\* C11: once a pull, build, push or rmi command exits non-zero the run is
\* failed, that command is the last one of the run (nothing is invoked after
\* it), and no run invokes pull, build, push or rmi more than once each.
\* ---------------------------------------------------------------------
C11_NoRetry ==
    /\ [](/\ loc.rc # 0 =>
               /\ pc = "failed" /\ failure # <<>>
               /\ invoked # <<>> /\ invoked[Len(invoked)][1] \in MutatingWords
           /\ \A w \in MutatingWords : Cardinality(Invocations(w)) =< 1)
    /\ [][pc = "failed" => ~C11_Invokes]_vars

\* a pull succeeded and the push after it failed: the push is the last command
C11_Witness ==
    /\ pc = "failed" /\ loc.rc # 0
    /\ Invocations(w_pull) # {} /\ Invocations(w_push) # {}
    /\ invoked[Len(invoked)][1] = w_push
    /\ failure[1].msg = "Failed to push image"

\* what a failure report carries: its keyword arguments and what its
\* message has formatted in
C12_Carried == failure[1].kwargs \cup failure[1].formats

\* ---------------------------------------------------------------------
\* C12 (as claimed): the failure report of a pull, build, push or rmi that
\* exited non-zero carries the command's stdout and stderr, the action list
\* and the command audit list.
\* ---------------------------------------------------------------------
C12_FailureCarriesTrail ==
    (pc = "failed" /\ loc.rc # 0) =>
        {"stdout", "stderr", "actions", "podman_actions"} \subseteq C12_Carried

C13_Ls == <<w_image, w_ls, M.image_name, w_format, w_json>>

C13_Exists == <<w_image, w_exists, M.image_name>>

C13_Last == invoked[Len(invoked)]

\* the listing query: always the lookup's first command; garbled output is
\* fatal, an empty listing leads to the existence check, any other to the
\* inspection
C13_ListingStep ==
    pc = "find_ls" =>
        /\ invoked' = Append(invoked, C13_Ls)
        /\ pc' \in {"failed", "find_exists", "find_inspect"}
        /\ (pc' = "failed" =>
                failure'[1].msg = "Failed to parse JSON output from podman image ls")
        /\ (pc' = "find_exists" => ListingOf(store, M.image_name) = <<>>)
        /\ (pc' = "find_inspect" => ListingOf(store, M.image_name) # <<>>)

\* the existence check: right after the listing; exit 0 leads to the
\* inspection, any other returns null with no inspection
C13_ExistsStep ==
    pc = "find_exists" =>
        /\ C13_Last = C13_Ls
        /\ invoked' = Append(invoked, C13_Exists)
        /\ (pc' = "find_inspect" <=> ExistsRc(store) = 0)
        /\ (ExistsRc(store) # 0 => loc'.image = <<>>)

\* the inspection: after the listing or the existence check, on the
\* qualified name
C13_InspectStep ==
    pc = "find_inspect" =>
        /\ C13_Last \in {C13_Ls, C13_Exists}
        /\ (C13_Last = C13_Ls <=> ListingOf(store, M.image_name) # <<>>)
        /\ invoked' = Append(invoked, InspectArgs(M.image_name))

\* neither the existence check nor the lookup's inspection is reached any
\* other way, and nothing is invoked once the run has failed
C13_NoOtherWay ==
    /\ (pc' = "find_exists" /\ pc # pc' => pc = "find_ls")
    /\ (pc' = "find_inspect" /\ pc # pc' => pc \in {"find_ls", "find_exists"})
    /\ (run' = run /\ invoked' # invoked /\ invoked'[Len(invoked')] = C13_Exists
            => pc = "find_exists")
    /\ (pc = "failed" /\ run' = run => invoked' = invoked)

\* ---------------------------------------------------------------------
\* C13: in every lookup the listing is queried first; the existence check
\* is issued if and only if the listing is empty; the inspection is issued
\* if and only if the listing is non-empty or the existence check exited 0,
\* and after them; with an empty listing and a non-zero existence check the
\* lookup returns null without inspecting; a listing that is not JSON is
\* fatal and no command follows it.
\* ---------------------------------------------------------------------
C13_LookupOrder ==
    [][C13_ListingStep /\ C13_ExistsStep /\ C13_InspectStep /\ C13_NoOtherWay]_vars

\* an image the listing did not show but the existence check found has
\* been inspected
C13_Witness ==
    /\ invoked = <<C13_Ls, C13_Exists, InspectArgs(M.image_name)>>
    /\ store # <<>> /\ ~store[1].listed
    /\ pc # "failed"

\* the inspection itself failed: non-zero exit or no JSON
C14_InspectFailed ==
    failure' # <<>> /\ failure'[1].msg \in
        {"Failed to run podman inspect", "Failed to parse JSON output from podman inspect"}

\* what the claim has the lookup return, for an inspection payload
C14_Filtered(images, payload, arch) ==
    LET result_set == IF images # <<>> THEN images ELSE payload
    IN  IF Truthy(arch)
        THEN IF payload # None /\ payload[1].Architecture = arch[1]
             THEN result_set ELSE None
        ELSE result_set

\* ---------------------------------------------------------------------
\* C14 (as claimed): with an architecture requested the lookup returns the
\* result set if the first inspected record has that architecture and null
\* otherwise, and never raises; with none requested it returns the result
\* set: the listing if non-empty, else the inspection payload.
\* ---------------------------------------------------------------------
C14_ArchFilter ==
    [][(pc = "find_inspect" /\ run' = run /\ ~C14_InspectFailed) =>
          /\ ~(failure' # <<>> /\ failure'[1].msg = "TypeError in _is_target_arch")
          /\ \E payload \in {InspectOf(store), None} :
                loc'.image = C14_Filtered(loc.images, payload, cfg.arch)]_vars

\* the first lookup found no image, or force is set
C15_Due == loc.digest_before = "none" \/ cfg.force

C15_Build == cfg.state = "build" \/ Truthy(cfg.path)

C15_NoContext == ~Truthy(cfg.path) /\ ~Truthy(cfg.build_file)

C15_ConfigError ==
    failure # <<>> /\ failure[1].msg =
        "Path to build context or file is required when building an image"

C16_PushRan ==
    IF cfg.check_mode THEN \E i \in 1..Len(skipped) : skipped[i] = "push"
    ELSE Invocations(w_push) # {}

\* ---------------------------------------------------------------------
\* C16: in states present and build with push requested, a run that
\* completes has run the push step, whether or not it built or pulled, and
\* reports changed=true whatever the digests; the push command is invoked
\* only when push is requested and only after the run's build or pull, if
\* any, and the inspection that follows its exit 0; changed is true from
\* the push step on.
\* ---------------------------------------------------------------------
C16_PushSequencing ==
    cfg.state \in {"present", "build"} =>
        /\ (cfg.push /\ pc = "done") => (C16_PushRan /\ results.changed)
        /\ C16_PushRan =>
                /\ cfg.push /\ results.changed
                /\ pc \in {"push_inspect", "done", "failed"}
        /\ \A i \in Invocations(w_push) :
                /\ \A j \in Invocations(w_pull) \cup Invocations(w_build) :
                        j + 1 < i /\ invoked[j + 1][1] = w_inspect
                /\ i = Len(invoked) \/ (i = Len(invoked) - 1 /\ loc.rc = 0)

\* a forced pull brought the same digest and the push made the run changed;
\* the push came after the pull and its inspection
C16_Witness ==
    /\ cfg.state = "present" /\ cfg.push /\ cfg.force /\ ~cfg.check_mode
    /\ pc = "done" /\ results.changed
    /\ loc.digest_before = store[1].Digest
    /\ \E j \in Invocations(w_pull) : \E i \in Invocations(w_push) : j + 1 < i

\* nothing was built or pulled, and the push ran all the same
C16_WitnessNoMutation ==
    /\ cfg.state = "present" /\ cfg.push /\ ~cfg.force /\ ~cfg.check_mode
    /\ pc = "done" /\ results.changed
    /\ MutatingInvocations = Invocations(w_push) /\ Invocations(w_push) # {}

\* a build or pull of the run has exited 0
C17_Mutated ==
    /\ Invocations(w_pull) \cup Invocations(w_build) # {}
    /\ loc.rc = 0

\* an inspection or a listing of the run failed as a command: non-zero
\* exit, or output that is not JSON
C17_QueryFailed ==
    failure # <<>> /\ failure[1].msg \in
        {"Failed to run podman inspect",
         "Failed to parse JSON output from podman inspect",
         "Failed to parse JSON output from podman image ls"}

\* ---------------------------------------------------------------------
\* C17 (as claimed): outside check mode, a present/build run without push
\* whose build or pull exited 0 and whose queries were answered ends with
\* an image record at hand for the comparison, and with changed true if and
\* only if the digest before differs from the digest after; so changed is
\* true when no image was found before, and false when a forced build or
\* pull brings the same digest.
\* ---------------------------------------------------------------------
C17_ChangeDetection ==
    (cfg.state \in {"present", "build"} /\ ~cfg.check_mode /\ ~cfg.push
        /\ C17_Mutated /\ Ended /\ ~C17_QueryFailed) =>
        /\ pc = "done"
        /\ results.image # <<>>
        /\ results.changed <=> (loc.digest_before # results.image[1].Digest)

\* the command lines of the commands handed to the tool, in order
C18_InvokedLines == [i \in 1..Len(invoked) |-> CmdLine(invoked[i])]

\* ---------------------------------------------------------------------
\* C18 (as claimed): when a run ends, in check mode or not, podman_actions
\* is exactly the sequence of the command lines invoked on the tool during
\* the run, in order, each once, with no entry for a command not invoked.
\* ---------------------------------------------------------------------
C18_AuditTrail ==
    (cfg # <<>> /\ Ended) => results.podman_actions = C18_InvokedLines

====
